---- MODULE Spec2Model ----
(***************************************************************************)
(* MessageHistory (autogpt/memory/message_history.py): the stored message  *)
(* cycles, the running summary and the last_trimmed_index cursor, with     *)
(* append, trim_messages, update_running_summary and summarize_batch.      *)
(*                                                                         *)
(* Python indices are kept 0-based in last_trimmed_index and in every      *)
(* recorded position; TLA+ sequences are 1-based, so the message at Python *)
(* index i of a list l is l[i + 1].                                        *)
(***************************************************************************)
EXTENDS Integers, Sequences, FiniteSets, TLC

VARIABLES message_cycles, summary, last_trimmed_index, call, trimmed

vars == <<message_cycles, summary, last_trimmed_index, call, trimmed>>

(* ---------------------------- bounds ----------------------------------- *)

\* Largest number of messages (over all its cycles) stored in one history.
MaxMessages == 3

\* Largest new_events list handed directly to update_running_summary.
MaxEvents == 3

(* ------------------------ program constants ---------------------------- *)

\* prompt_template_length = 100
PromptTemplateLength == 100

\* OPEN_AI_CHAT_MODELS.get(cfg.fast_llm_model).max_tokens (gpt-3.5-turbo)
MaxTokens == 4096

\* summary: str = "I was created"
InitialSummary == "I was created"

(* ----------------------------- messages -------------------------------- *)

Msg(r, c) == [role |-> r, content |-> c]

\* The messages the agent loop stores in the history, in a fixed order used
\* to enumerate the chains.
MessageOrder ==
    << Msg("assistant", "{thoughts,command}"),
       Msg("system", "result") >>

HistoryMessages == {MessageOrder[i] : i \in DOMAIN MessageOrder}

\* The events update_running_summary is called with directly: the history
\* messages, a user message, an assistant message that is not JSON, a role
\* written in another case, and a role the normalizer has no rule for.
EventMessages ==
    HistoryMessages \cup
        { Msg("user", "hi"),
          Msg("assistant", "oops"),
          Msg("System", "result"),
          Msg("function", "hi") }

\* The textual content the completion service answers with.
CompletionResponses == {"short summary", "long summary"}

RECURSIVE SeqsUpTo(_, _)
SeqsUpTo(S, n) ==
    IF n = 0 THEN {<<>>}
    ELSE LET shorter == SeqsUpTo(S, n - 1)
         IN  shorter \cup {Append(s, x) : s \in {t \in shorter : Len(t) = n - 1}, x \in S}

\* A MessageCycle is an ordered sequence of one or more Messages.
CycleChoices == SeqsUpTo(HistoryMessages, MaxMessages) \ {<<>>}

RECURSIVE SubSeqAt(_, _, _)
SubSeqAt(s, I, i) ==
    IF i > Len(s) THEN <<>>
    ELSE (IF i \in I THEN <<s[i]>> ELSE <<>>) \o SubSeqAt(s, I, i + 1)

\* The chains passed to trim_messages: one list per set of history messages.
ChainChoices == {SubSeqAt(MessageOrder, I, 1) : I \in SUBSET DOMAIN MessageOrder}

(* ------------------------ external collaborators ----------------------- *)

\* str.lower() on a role.
Lower(r) ==
    CASE r = "System" -> "system"
      [] OTHER -> r

\* count_string_tokens(text, model): the token length of a string.
CountStringTokens(text) ==
    CASE text = "I was created" -> 3
      [] text = "short summary" -> 2
      [] text = "long summary" -> 3000
      [] text = "hi" -> 1
      [] text = "{thoughts,command}" -> 1500
      [] text = "{command}" -> 900
      [] text = "oops" -> 1200
      [] text = "result" -> 2500
      [] text = "user" -> 1
      [] text = "assistant" -> 1
      [] text = "system" -> 1
      [] text = "System" -> 1
      [] text = "function" -> 1
      [] text = "you" -> 1
      [] text = "your computer" -> 2
      [] OTHER -> 0

\* count_string_tokens(str(event), model): str(event) shows role and content.
EventTokens(event) == CountStringTokens(event.role) + CountStringTokens(event.content)

\* extract_json_from_response(content): the keys of the JSON object found in
\* the text, or JSONDecodeError when the text holds no JSON object.
ExtractJsonFromResponse(content) ==
    CASE content = "{thoughts,command}" -> [raised |-> FALSE, dict |-> {"thoughts", "command"}]
      [] content = "{command}" -> [raised |-> FALSE, dict |-> {"command"}]
      [] OTHER -> [raised |-> TRUE, dict |-> {}]

\* json.dumps(content_dict)
JsonDumps(dict) ==
    CASE dict = {"thoughts", "command"} -> "{thoughts,command}"
      [] dict = {"command"} -> "{command}"
      [] OTHER -> "{}"

(* -------------------------- MessageHistory ----------------------------- *)

\* MessageHistory.messages: the cycles' messages, in cycle order.
RECURSIVE Messages(_)
Messages(cycles) ==
    IF cycles = <<>> THEN <<>>
    ELSE Head(cycles) \o Messages(Tail(cycles))

\* summary_message()
SummaryMessage(s) ==
    Msg("system", <<"This reminds you of these events from your past: \n", s>>)

\* msg in current_message_chain (value equality)
InChain(msg, chain) == \E k \in DOMAIN chain : chain[k] = msg

\* 0-based positions of the flattened history kept by the first
\* comprehension of trim_messages: i > self.last_trimmed_index.
NewMessagePositionsFromCursor(flat, cursor) ==
    {i \in 0..(Len(flat) - 1) : i >= cursor}

NewMessagePositions(flat, cursor) ==
    {i \in 0..(Len(flat) - 1) : i > cursor}

\* The list comprehension over enumerate(self.messages), then the one that
\* drops the messages present in the chain; each kept message is paired
\* with the position it was taken from.
RECURSIVE SelectFrom(_, _, _, _)
SelectFrom(flat, keep, chain, i) ==
    IF i > Len(flat) - 1 THEN <<>>
    ELSE (IF i \in keep /\ ~InChain(flat[i + 1], chain)
            THEN << [pos |-> i, msg |-> flat[i + 1]] >>
            ELSE <<>>)
         \o SelectFrom(flat, keep, chain, i + 1)

NewMessagesIgnoringChain(flat, cursor, chain) ==
    SelectFrom(flat, NewMessagePositions(flat, cursor), <<>>, 0)

NewMessagesNotInChain(flat, cursor, chain) ==
    SelectFrom(flat, NewMessagePositions(flat, cursor), chain, 0)

(* ----------------------- update_running_summary ------------------------ *)

\* The try block of the assistant branch: the "thoughts" key is deleted and
\* the dictionary re-serialized; on JSONDecodeError the content is left as
\* it is and logger.error is called.
StripThoughtsOrEmpty(content) ==
    LET r == ExtractJsonFromResponse(content)
    IN  [content |-> JsonDumps(r.dict \ {"thoughts"}), error |-> r.raised]

StripThoughts(content) ==
    LET r == ExtractJsonFromResponse(content)
    IN  IF r.raised
          THEN [content |-> content, error |-> TRUE]
          ELSE [content |-> JsonDumps(r.dict \ {"thoughts"}), error |-> FALSE]

\* list.remove(event): the position of the first element equal to event.
FirstEqual(events, event) ==
    CHOOSE k \in DOMAIN events :
        /\ events[k] = event
        /\ \A j \in 1..(k - 1) : events[j] # event

RemoveAt(s, k) == SubSeq(s, 1, k - 1) \o SubSeq(s, k + 1, Len(s))

\* The state of the normalization loop: the copied list, for each of its
\* elements the 0-based position it had in the input (origin), the input
\* positions the loop visited, and those for which logger.error was called.
NormalizeStart(new_events) ==
    [ events  |-> new_events,
      origin  |-> [k \in DOMAIN new_events |-> k - 1],
      visited |-> {},
      errors  |-> {} ]

\* for event in new_events: ... The list iterator holds a position i and
\* stops when i reaches the current length of the list, so a removal during
\* the loop shifts the elements that follow under the iterator.
RECURSIVE NormalizeFrom(_, _)
NormalizeFrom(st, i) ==
    IF i > Len(st.events) THEN st
    ELSE
      LET event == st.events[i]
          seen  == [st EXCEPT !.visited = @ \cup {st.origin[i]}]
      IN  IF Lower(event.role) = "assistant" THEN
            LET r == StripThoughts(event.content)
            IN  NormalizeFrom(
                  [seen EXCEPT !.events[i] = Msg("you", r.content),
                               !.errors = IF r.error THEN @ \cup {st.origin[i]} ELSE @],
                  i + 1)
          ELSE IF Lower(event.role) = "system" THEN
            NormalizeFrom([seen EXCEPT !.events[i] = Msg("your computer", event.content)], i + 1)
          ELSE IF event.role = "user" THEN
            LET k == FirstEqual(st.events, event)
            IN  NormalizeFrom(
                  [seen EXCEPT !.events = RemoveAt(st.events, k),
                               !.origin = RemoveAt(st.origin, k)],
                  i + 1)
          ELSE NormalizeFrom(seen, i + 1)

Normalize(new_events) == NormalizeFrom(NormalizeStart(new_events), 1)

\* What one summarize_batch call meets: both log records written and the
\* completion answered; the completion call failing; log_cycle failing on
\* the prompt record or on the summary record.
FlushOutcomes ==
    {[kind |-> "ok", response |-> r] : r \in CompletionResponses}
    \cup {[kind |-> "SummaryLogFailure", response |-> r] : r \in CompletionResponses}
    \cup {[kind |-> "CompletionServiceFailure", response |-> "none"],
          [kind |-> "PromptLogFailure", response |-> "none"]}

\* The calls summarize_batch makes, in order, under outcome o, up to and
\* with the first that fails: log_cycle with the prompt,
\* create_chat_completion with the prompt, log_cycle with self.summary.
FlushStepsLogLate(o) ==
    CASE o.kind = "CompletionServiceFailure" -> <<"create_chat_completion">>
      [] o.kind = "PromptLogFailure" -> <<"create_chat_completion", "log_cycle prompt">>
      [] OTHER -> <<"create_chat_completion", "log_cycle prompt", "log_cycle summary">>

FlushSteps(o) ==
    CASE o.kind = "PromptLogFailure" -> <<"log_cycle prompt">>
      [] o.kind = "CompletionServiceFailure" -> <<"log_cycle prompt", "create_chat_completion">>
      [] OTHER -> <<"log_cycle prompt", "create_chat_completion", "log_cycle summary">>

\* summarize_batch(new_events_batch, cfg) under outcome o: the prompt embeds
\* self.summary and the batch, log_cycle(prompt), self.summary =
\* create_chat_completion(prompt).content, log_cycle(self.summary). Nothing
\* is caught: the first failing call ends the method with that error.
SummarizeBatchSwallow(sum, batch, o) ==
    [ summary |-> IF o.kind \in {"ok", "SummaryLogFailure"} THEN o.response ELSE sum,
      status  |-> "ok",
      flush   |-> [ batch      |-> batch,
                    summary_in |-> sum,
                    latest     |-> IF batch = <<>> THEN "Nothing new happened." ELSE "events",
                    completion |-> CASE o.kind = "PromptLogFailure" -> "not called"
                                     [] o.kind = "CompletionServiceFailure" -> "failed"
                                     [] OTHER -> "answered",
                    response   |-> o.response,
                    steps      |-> FlushSteps(o),
                    failed     |-> IF o.kind = "ok" THEN "none" ELSE o.kind,
                    logged     |-> IF o.kind = "ok" THEN o.response ELSE "none",
                    logs       |-> <<"prompt">> ] ]

SummarizeBatchKeepSummary(sum, batch, o) ==
    [ summary |-> sum,
      status  |-> IF o.kind = "ok" THEN "ok" ELSE o.kind,
      flush   |-> [ batch      |-> batch,
                    summary_in |-> sum,
                    latest     |-> IF batch = <<>> THEN "Nothing new happened." ELSE "events",
                    completion |-> CASE o.kind = "PromptLogFailure" -> "not called"
                                     [] o.kind = "CompletionServiceFailure" -> "failed"
                                     [] OTHER -> "answered",
                    response   |-> o.response,
                    steps      |-> FlushSteps(o),
                    failed     |-> IF o.kind = "ok" THEN "none" ELSE o.kind,
                    logged     |-> IF o.kind = "ok" THEN o.response ELSE "none",
                    logs       |-> CASE o.kind = "PromptLogFailure" -> <<>>
                                     [] o.kind = "CompletionServiceFailure" -> <<"prompt">>
                                     [] o.kind = "SummaryLogFailure" -> <<"prompt">>
                                     [] OTHER -> <<"prompt", "summary">> ] ]

SummarizeBatch(sum, batch, o) ==
    [ summary |-> IF o.kind \in {"ok", "SummaryLogFailure"} THEN o.response ELSE sum,
      status  |-> IF o.kind = "ok" THEN "ok" ELSE o.kind,
      flush   |-> [ batch      |-> batch,
                    summary_in |-> sum,
                    latest     |-> IF batch = <<>> THEN "Nothing new happened." ELSE "events",
                    completion |-> CASE o.kind = "PromptLogFailure" -> "not called"
                                     [] o.kind = "CompletionServiceFailure" -> "failed"
                                     [] OTHER -> "answered",
                    response   |-> o.response,
                    steps      |-> FlushSteps(o),
                    failed     |-> IF o.kind = "ok" THEN "none" ELSE o.kind,
                    logged     |-> IF o.kind = "ok" THEN o.response ELSE "none",
                    logs       |-> CASE o.kind = "PromptLogFailure" -> <<>>
                                     [] o.kind = "CompletionServiceFailure" -> <<"prompt">>
                                     [] o.kind = "SummaryLogFailure" -> <<"prompt">>
                                     [] OTHER -> <<"prompt", "summary">> ] ]

\* The test of lines 172-175: the event does not fit the batch.
BatchIsFullPerEvent(batch_tlength, event_tlength, summary_tlength) ==
    \/ batch_tlength > 0
    \/ batch_tlength + event_tlength
          > MaxTokens - PromptTemplateLength - summary_tlength

BatchIsFull(batch_tlength, event_tlength, summary_tlength) ==
    batch_tlength + event_tlength
        > MaxTokens - PromptTemplateLength - summary_tlength

\* batch = [event]: the batch started after a flush.
StartBatchEmpty(event) == <<>>

StartBatch(event) == <<event>>

\* The packing loop from its position i (1-based) in the normalized list,
\* with the locals batch, batch_tlength and summary_tlength and the flushes
\* made so far; then the flush of the remaining batch. The result is the
\* set of the runs the flush outcomes allow.
RECURSIVE PackFrom(_, _, _, _, _, _, _)
PackFrom(sum, events, i, batch, batch_tlength, summary_tlength, flushes) ==
    IF i > Len(events) THEN
        IF batch # <<>> THEN
            { LET r == SummarizeBatch(sum, batch, o)
              IN  [summary |-> r.summary, status |-> r.status,
                   flushes |-> Append(flushes, r.flush)] : o \in FlushOutcomes }
        ELSE {[summary |-> sum, status |-> "ok", flushes |-> flushes]}
    ELSE
      LET event == events[i]
          event_tlength == EventTokens(event)
      IN  IF BatchIsFull(batch_tlength, event_tlength, summary_tlength) THEN
            UNION { LET r == SummarizeBatch(sum, batch, o)
                    IN  IF r.status = "ok"
                          THEN PackFrom(r.summary, events, i + 1, StartBatch(event), event_tlength,
                                        CountStringTokens(r.summary), Append(flushes, r.flush))
                          ELSE {[summary |-> r.summary, status |-> r.status,
                                 flushes |-> Append(flushes, r.flush)]}
                    : o \in FlushOutcomes }
          ELSE PackFrom(sum, events, i + 1, Append(batch, event),
                        batch_tlength + event_tlength, summary_tlength, flushes)

\* update_running_summary(new_events) with self.summary = sum: the set of
\* its possible runs, each with the summary it leaves, how it ended, the
\* normalization it did and the flushes it made.
UpdateRunningSummary(sum, new_events) ==
    IF new_events = <<>> THEN
        {[summary |-> sum, status |-> "ok", flushes |-> <<>>,
          norm |-> NormalizeStart(<<>>)]}
    ELSE
      LET norm == Normalize(new_events)
      IN  { [summary |-> r.summary, status |-> r.status, flushes |-> r.flushes,
             norm |-> norm]
            : r \in PackFrom(sum, norm.events, 1, <<>>, 0, CountStringTokens(sum), <<>>) }

(* ---------------------------- trim_messages ---------------------------- *)

\* How list.index may compare a MessageCycle with a Message: the two are
\* never equal, or a cycle counts as equal to a message it holds.
CycleEqualities == {"never", "holds"}

CycleEqualsMessage(cycle, msg, eq) ==
    /\ eq = "holds"
    /\ \E k \in DOMAIN cycle : cycle[k] = msg

\* self.message_cycles.index(last_message): the 0-based position of the
\* first element of message_cycles equal to last_message; ValueError when
\* there is none.
CyclesIndexOrMinusOne(cycles, last_message, eq) ==
    LET hits == {i \in DOMAIN cycles : CycleEqualsMessage(cycles[i], last_message, eq)}
    IN  IF hits = {} THEN [raised |-> FALSE, index |-> -1]
        ELSE [raised |-> FALSE,
              index |-> (CHOOSE i \in hits : \A j \in hits : i <= j) - 1]

CyclesIndex(cycles, last_message, eq) ==
    LET hits == {i \in DOMAIN cycles : CycleEqualsMessage(cycles[i], last_message, eq)}
    IN  IF hits = {} THEN [raised |-> TRUE, index |-> 0]
        ELSE [raised |-> FALSE,
              index |-> (CHOOSE i \in hits : \A j \in hits : i <= j) - 1]

MsgsOf(picked) == [k \in DOMAIN picked |-> picked[k].msg]
PositionsOf(picked) == [k \in DOMAIN picked |-> picked[k].pos]

\* The record kept of the last call made on the history: its arguments, the
\* summary and cursor it started from, what update_running_summary did, how
\* the call ended ("ok" or the error raised) and what it returned.
NoRun == [summary |-> "none", status |-> "not called", flushes |-> <<>>,
          norm |-> NormalizeStart(<<>>)]

CallRecord(op, chain, new_events, positions, run, status, returned) ==
    [ op          |-> op,
      chain       |-> chain,
      new_events  |-> new_events,
      positions   |-> positions,
      pre_summary |-> summary,
      pre_index   |-> last_trimmed_index,
      run         |-> run,
      status      |-> status,
      returned    |-> returned ]

\* The positions of the flattened history that the trims which returned
\* have handed back so far: in one trim at least (once), in more than one
\* (again).
NothingTrimmed == [once |-> {}, again |-> {}]

Returning(log, positions) ==
    LET now == {positions[k] : k \in DOMAIN positions}
    IN  [once |-> log.once \cup now, again |-> log.again \cup (log.once \cap now)]

Init ==
    /\ message_cycles = <<>>
    /\ summary = InitialSummary
    /\ last_trimmed_index = 0
    /\ call = CallRecord("none", <<>>, <<>>, <<>>, NoRun, "ok", <<>>)
    /\ trimmed = NothingTrimmed

\* The agent loop makes its calls one after the other: the caller holds
\* what trim_messages returned or raised until it has taken it, and only
\* then makes its next call.
ResultPending == call.op = "trim"

TakeResult ==
    /\ ResultPending
    /\ call' = CallRecord("none", <<>>, <<>>, <<>>, NoRun, "ok", <<>>)
    /\ UNCHANGED <<message_cycles, summary, last_trimmed_index, trimmed>>

\* append(message_cycle)
AppendCyclePrepend(cycle) ==
    /\ ~ResultPending
    /\ Len(Messages(message_cycles)) + Len(cycle) <= MaxMessages
    /\ message_cycles' = <<cycle>> \o message_cycles
    /\ call' = CallRecord("append", <<>>, <<>>, <<>>, NoRun, "ok", <<>>)
    /\ UNCHANGED <<summary, last_trimmed_index, trimmed>>

AppendCycle(cycle) ==
    /\ ~ResultPending
    /\ Len(Messages(message_cycles)) + Len(cycle) <= MaxMessages
    /\ message_cycles' = Append(message_cycles, cycle)
    /\ call' = CallRecord("append", <<>>, <<>>, <<>>, NoRun, "ok", <<>>)
    /\ UNCHANGED <<summary, last_trimmed_index, trimmed>>

\* trim_messages(current_message_chain)
TrimMessages(chain) ==
    /\ ~ResultPending
    /\ LET flat   == Messages(message_cycles)
           picked == NewMessagesNotInChain(flat, last_trimmed_index, chain)
           new_messages_not_in_chain == MsgsOf(picked)
       IN  IF new_messages_not_in_chain = <<>> THEN
               /\ call' = CallRecord("trim", chain, <<>>, <<>>, NoRun, "ok",
                                     <<SummaryMessage(summary), <<>> >>)
               /\ UNCHANGED <<message_cycles, summary, last_trimmed_index, trimmed>>
           ELSE
               \E run \in UpdateRunningSummary(summary, new_messages_not_in_chain) :
                 /\ summary' = run.summary
                 /\ UNCHANGED message_cycles
                 /\ IF run.status # "ok" THEN
                       /\ call' = CallRecord("trim", chain, new_messages_not_in_chain,
                                             PositionsOf(picked), run, run.status, <<>>)
                       /\ UNCHANGED <<last_trimmed_index, trimmed>>
                    ELSE
                       \E eq \in CycleEqualities :
                         LET last_message == new_messages_not_in_chain[Len(new_messages_not_in_chain)]
                             found == CyclesIndex(message_cycles, last_message, eq)
                         IN  IF found.raised THEN
                                 /\ call' = CallRecord("trim", chain, new_messages_not_in_chain,
                                                       PositionsOf(picked), run, "ValueError", <<>>)
                                 /\ UNCHANGED <<last_trimmed_index, trimmed>>
                             ELSE
                                 /\ last_trimmed_index' = found.index
                                 /\ trimmed' = Returning(trimmed, PositionsOf(picked))
                                 /\ call' = CallRecord("trim", chain, new_messages_not_in_chain,
                                                       PositionsOf(picked), run, "ok",
                                                       <<SummaryMessage(run.summary),
                                                         new_messages_not_in_chain>>)

\* update_running_summary(new_events), called on its own
UpdateRunningSummaryCall(new_events) ==
    \E run \in UpdateRunningSummary(summary, new_events) :
      /\ summary' = run.summary
      /\ call' = CallRecord("update_running_summary", <<>>, new_events,
                            [k \in DOMAIN new_events |-> k - 1], run, run.status,
                            IF run.status = "ok" THEN <<SummaryMessage(run.summary)>> ELSE <<>>)
      /\ UNCHANGED <<message_cycles, last_trimmed_index, trimmed>>

Next ==
    \/ \E cycle \in CycleChoices : AppendCycle(cycle)
    \/ \E chain \in ChainChoices : TrimMessages(chain)
    \/ TakeResult

Spec == Init /\ [][Next]_vars

\* update_running_summary applied once to every bounded list of events,
\* from every summary the history may hold.
InitSummarize ==
    /\ message_cycles = <<>>
    /\ summary \in {InitialSummary} \cup CompletionResponses
    /\ last_trimmed_index = 0
    /\ trimmed = NothingTrimmed
    /\ \E new_events \in SeqsUpTo(EventMessages, MaxEvents) :
          call = CallRecord("pending", <<>>, new_events, <<>>, NoRun, "ok", <<>>)

NextSummarize ==
    /\ call.op = "pending"
    /\ UpdateRunningSummaryCall(call.new_events)

SpecSummarize == InitSummarize /\ [][NextSummarize]_vars

(* ------------------------------ properties ----------------------------- *)

\* The 0-based positions of flat above the cursor whose message has no
\* equal in the chain.
StalePositions(flat, cursor, chain) ==
    {i \in 0..(Len(flat) - 1) :
        i > cursor /\ \A k \in DOMAIN chain : chain[k] # flat[i + 1]}

\* out lists the messages of flat at the positions P, in increasing order.
IsSelection(out, flat, P) ==
    /\ Len(out) = Cardinality(P)
    /\ \A p \in P : out[Cardinality({q \in P : q <= p})] = flat[p + 1]

\* C1: the trimmed_messages list returned by trim is exactly the ordered
\* subsequence of the flattened history made of the messages at an index
\* strictly greater than last_trimmed_index whose value does not occur in
\* current_message_chain.
C1_TrimmedIsStaleSubsequence ==
    (call.op = "trim" /\ call.status = "ok") =>
        IsSelection(call.returned[2], Messages(message_cycles),
                    StalePositions(Messages(message_cycles), call.pre_index, call.chain))

\* A trim returned a message that lies behind a candidate exempted by the chain.
C1_Witness ==
    /\ call.op = "trim"
    /\ call.status = "ok"
    /\ call.returned[2] # <<>>
    /\ \E i, j \in 0..(Len(Messages(message_cycles)) - 1) :
          /\ call.pre_index < i
          /\ i < j
          /\ InChain(Messages(message_cycles)[i + 1], call.chain)
          /\ ~InChain(Messages(message_cycles)[j + 1], call.chain)

\* C2: after a trim that found a non-empty stale list and whose
\* summarization returned successfully, last_trimmed_index is the position
\* in the flattened history at which the last stale message was found.
C2_CursorAtLastStalePosition ==
    (call.op = "trim" /\ call.new_events # <<>> /\ call.run.status = "ok") =>
        last_trimmed_index = call.positions[Len(call.positions)]

\* C3: last_trimmed_index never decreases, whatever call is made.
C3_CursorNeverDecreases == [][last_trimmed_index' >= last_trimmed_index]_vars

\* C4: in every reachable state 0 <= last_trimmed_index <= length of the
\* flattened message sequence.
C4_CursorWithinFlattened ==
    /\ 0 <= last_trimmed_index
    /\ last_trimmed_index <= Len(Messages(message_cycles))

\* A trim moved the cursor off its initial value.
C4_Witness ==
    /\ call.op = "trim"
    /\ call.status = "ok"
    /\ last_trimmed_index # call.pre_index
    /\ last_trimmed_index > 0

\* C5: a trim for which no candidate (index above the cursor) is absent from
\* the chain returns (summary_message() of the existing summary, empty
\* list), makes no completion call and leaves summary, last_trimmed_index
\* and the stored cycles unchanged.
C5_NoOpTrim ==
    [][ ( /\ call'.op = "trim"
          /\ StalePositions(Messages(message_cycles), last_trimmed_index, call'.chain) = {} )
        => ( /\ call'.status = "ok"
             /\ call'.returned = <<SummaryMessage(summary), <<>> >>
             /\ call'.run.flushes = <<>>
             /\ UNCHANGED <<message_cycles, summary, last_trimmed_index>> ) ]_vars

\* A trim took the no-op path although messages lie above the cursor (all of
\* them in the chain).
C5_Witness ==
    /\ call.op = "trim"
    /\ call.new_events = <<>>
    /\ call.returned = <<SummaryMessage(summary), <<>> >>
    /\ Len(Messages(message_cycles)) - 1 > last_trimmed_index

\* C6: if the k-th completion call of a trim fails, trim raises that error,
\* summary is the response of flush k-1 (the summary from before the call
\* when k = 1), no later batch is flushed and last_trimmed_index is what it
\* was before the call.
C6_PartialCommitOnFailure ==
    call.op = "trim" =>
        \A k \in DOMAIN call.run.flushes :
            call.run.flushes[k].completion = "failed" =>
                /\ call.status = "CompletionServiceFailure"
                /\ call.returned = <<>>
                /\ k = Len(call.run.flushes)
                /\ summary = IF k = 1 THEN call.pre_summary
                             ELSE call.run.flushes[k - 1].response
                /\ last_trimmed_index = call.pre_index

\* The second completion call of a trim failed after the first had replaced
\* the summary.
C6_Witness ==
    /\ call.op = "trim"
    /\ Len(call.run.flushes) = 2
    /\ call.run.flushes[2].completion = "failed"
    /\ call.run.flushes[1].response # call.pre_summary

RECURSIVE BatchTokens(_)
BatchTokens(batch) ==
    IF batch = <<>> THEN 0
    ELSE EventTokens(Head(batch)) + BatchTokens(Tail(batch))

\* C7: every batch sent to the completion service has a token total of at
\* most max_tokens - prompt_template_length - tokens of the summary the
\* batch is sent with.
C7_BatchWithinBudget ==
    \A k \in DOMAIN call.run.flushes :
        call.run.flushes[k].completion # "not called" =>
            BatchTokens(call.run.flushes[k].batch)
                <= MaxTokens - PromptTemplateLength
                     - CountStringTokens(call.run.flushes[k].summary_in)

\* The role an event is to carry after normalization.
RelabelledRole(r) ==
    CASE Lower(r) = "assistant" -> "you"
      [] Lower(r) = "system" -> "your computer"
      [] OTHER -> r

\* C8: the events that reach the packer are exactly the input events whose
\* role is not "user", in their input order, assistant relabelled "you",
\* system relabelled "your computer", every other role unchanged.
C8_NormalizedRoles ==
    call.op = "update_running_summary" =>
        LET kept == {p \in 0..(Len(call.new_events) - 1) : call.new_events[p + 1].role # "user"}
            norm == call.run.norm
        IN  /\ Len(norm.events) = Cardinality(kept)
            /\ \A p \in kept :
                  LET k == Cardinality({q \in kept : q <= p})
                  IN  /\ norm.origin[k] = p
                      /\ norm.events[k].role = RelabelledRole(call.new_events[p + 1].role)

\* C9: no completion call is issued with an empty batch, and an empty
\* new_events makes no completion call.
C9_NoEmptyBatchFlushed ==
    /\ \A k \in DOMAIN call.run.flushes : call.run.flushes[k].batch # <<>>
    /\ (call.op = "update_running_summary" /\ call.new_events = <<>>)
          => call.run.flushes = <<>>

\* C10: when JSON extraction fails on an assistant event, the call raises
\* nothing because of it, the event keeps its content and is relabelled
\* "you", the loop goes on with the next event, and the event is in a batch
\* that was summarized.
C10_MalformedPayloadRecovered ==
    call.op = "update_running_summary" =>
        \A p \in call.run.norm.errors :
            LET norm  == call.run.norm
                event == Msg("you", call.new_events[p + 1].content)
            IN  /\ call.status \in {"ok", "CompletionServiceFailure",
                                    "PromptLogFailure", "SummaryLogFailure"}
                /\ call.status # "ok" =>
                      /\ call.run.flushes # <<>>
                      /\ call.run.flushes[Len(call.run.flushes)].logs # <<"prompt", "summary">>
                /\ \E k \in DOMAIN norm.events :
                      norm.origin[k] = p /\ norm.events[k] = event
                /\ p + 1 < Len(call.new_events) => (p + 1) \in norm.visited
                /\ call.status = "ok" =>
                      \E f \in DOMAIN call.run.flushes :
                          /\ call.run.flushes[f].completion = "answered"
                          /\ \E j \in DOMAIN call.run.flushes[f].batch :
                                call.run.flushes[f].batch[j] = event

\* JSON extraction failed on an event that is not the last one, and the call
\* returned.
C10_Witness ==
    /\ call.op = "update_running_summary"
    /\ call.status = "ok"
    /\ \E p \in call.run.norm.errors : p + 1 < Len(call.new_events)

\* C11: the flushes of one update_running_summary are chained: flush j is
\* sent with the summary flush j-1 produced (the summary from before the
\* call for j = 1) and only after flush j-1 was answered, every batch that
\* was extended after its first event fits the budget of that summary, and
\* after a call that returned, summary is the last response, which the
\* returned message wraps.
C11_FlushesChained ==
    call.op = "update_running_summary" =>
        LET fl == call.run.flushes
        IN  /\ \A j \in DOMAIN fl :
                  /\ fl[j].summary_in = IF j = 1 THEN call.pre_summary ELSE fl[j - 1].response
                  /\ j > 1 => fl[j - 1].completion = "answered"
                  /\ Len(fl[j].batch) >= 2 =>
                        BatchTokens(fl[j].batch)
                            <= MaxTokens - PromptTemplateLength
                                 - CountStringTokens(fl[j].summary_in)
            /\ (call.status = "ok" /\ fl # <<>>) =>
                  /\ summary = fl[Len(fl)].response
                  /\ call.returned = <<SummaryMessage(fl[Len(fl)].response)>>

\* A call returned after two flushes, the second with a batch of two events
\* packed against the summary the first flush produced.
C11_Witness ==
    /\ call.op = "update_running_summary"
    /\ call.status = "ok"
    /\ Len(call.run.flushes) = 2
    /\ Len(call.run.flushes[2].batch) = 2
    /\ call.run.flushes[1].response # call.pre_summary

\* C12: a failure of the log sink during a flush does not abort the trim:
\* the completion call of that flush is still made and the trim returns
\* normally.
C12_LogFailureDoesNotAbort ==
    call.op = "trim" =>
        \A k \in DOMAIN call.run.flushes :
            call.run.flushes[k].failed \in {"PromptLogFailure", "SummaryLogFailure"} =>
                /\ call.run.flushes[k].completion = "answered"
                /\ call.status = "ok"
                /\ call.returned # <<>>

IsPrefix(a, b) ==
    /\ Len(a) <= Len(b)
    /\ \A i \in DOMAIN a : a[i] = b[i]

\* C13: the stored history only grows at its end: in every step the cycles
\* and the flattened messages before the step are a prefix of those after
\* it, with role and content unchanged; and the messages a trim returns are
\* the stored ones, role and content as stored.
C13_HistoryAppendOnly ==
    [][ /\ IsPrefix(message_cycles, message_cycles')
        /\ IsPrefix(Messages(message_cycles), Messages(message_cycles'))
        /\ (call'.op = "trim" /\ call'.status = "ok") =>
              /\ Len(call'.returned[2]) = Len(call'.positions)
              /\ \A k \in DOMAIN call'.positions :
                    call'.returned[2][k] = Messages(message_cycles)[call'.positions[k] + 1]
      ]_vars

\* A trim returned messages that it summarized under other roles, from a
\* history of two cycles.
C13_Witness ==
    /\ call.op = "trim"
    /\ call.status = "ok"
    /\ call.returned[2] # <<>>
    /\ call.run.norm.events # call.returned[2]
    /\ Len(message_cycles) >= 2

\* C14: right after a trim that returned, a trim with the same chain finds
\* no stale message, so that it returns an empty list, makes no completion
\* call and leaves summary and last_trimmed_index unchanged.
C14_RetrimFindsNothing ==
    (call.op = "trim" /\ call.status = "ok") =>
        NewMessagesNotInChain(Messages(message_cycles), last_trimmed_index, call.chain) = <<>>

\* The number of events in the first k batches flushed.
RECURSIVE Consumed(_, _)
Consumed(fl, k) ==
    IF k = 0 THEN 0 ELSE Len(fl[k].batch) + Consumed(fl, k - 1)

\* C15: a flush made before the last event was reached is made only when
\* the next event would take the batch over the budget, and that event
\* starts the next batch; when all the normalized events fit the budget
\* together, exactly one completion call is made.
C15_FlushOnlyOnOverflow ==
    call.op = "update_running_summary" =>
        LET fl == call.run.flushes
            ev == call.run.norm.events
        IN  /\ \A k \in DOMAIN fl :
                  Consumed(fl, k) < Len(ev) =>
                      /\ BatchTokens(fl[k].batch) + EventTokens(ev[Consumed(fl, k) + 1])
                            > MaxTokens - PromptTemplateLength
                                - CountStringTokens(fl[k].summary_in)
                      /\ k < Len(fl) => fl[k + 1].batch[1] = ev[Consumed(fl, k) + 1]
            /\ ( /\ ev # <<>>
                 /\ BatchTokens(ev) <= MaxTokens - PromptTemplateLength
                                         - CountStringTokens(call.pre_summary) )
                  => Len(fl) = 1

\* A flush was made before the end of the list and the event that did not
\* fit was flushed alone after it.
C15_Witness ==
    /\ call.op = "update_running_summary"
    /\ Len(call.run.norm.events) >= 2
    /\ Len(call.run.flushes) = 2
    /\ call.run.flushes[1].batch # <<>>
    /\ Len(call.run.flushes[2].batch) = 1

\* C16: a flush whose log calls succeed makes its calls in the order prompt
\* record, completion call, summary record, the summary record carrying
\* the new summary; when the completion call fails only the prompt record
\* has been written.
C16_AuditOrder ==
    \A k \in DOMAIN call.run.flushes :
        LET f == call.run.flushes[k]
        IN  /\ f.failed = "none" =>
                  /\ f.steps = <<"log_cycle prompt", "create_chat_completion", "log_cycle summary">>
                  /\ f.logs = <<"prompt", "summary">>
                  /\ f.logged = f.response
            /\ f.failed = "CompletionServiceFailure" =>
                  /\ f.steps = <<"log_cycle prompt", "create_chat_completion">>
                  /\ f.logs = <<"prompt">>
                  /\ f.logged = "none"

\* A first flush wrote both records and the completion call of the second
\* failed.
C16_Witness ==
    /\ Len(call.run.flushes) = 2
    /\ call.run.flushes[1].failed = "none"
    /\ call.run.flushes[2].failed = "CompletionServiceFailure"

RECURSIVE BatchesOf(_)
BatchesOf(fl) ==
    IF fl = <<>> THEN <<>> ELSE Head(fl).batch \o BatchesOf(Tail(fl))

\* C17: in an update_running_summary that returned, the batches flushed,
\* concatenated in flush order, are the normalized events.
C17_BatchesPartitionEvents ==
    (call.op = "update_running_summary" /\ call.status = "ok") =>
        BatchesOf(call.run.flushes) = call.run.norm.events

\* A call that dropped a user message returned after two flushes.
C17_Witness ==
    /\ call.op = "update_running_summary"
    /\ call.status = "ok"
    /\ Len(call.run.flushes) >= 2
    /\ Len(call.run.norm.events) >= 2
    /\ Len(call.run.norm.events) < Len(call.new_events)

\* C18: no position of the flattened history is returned by more than one
\* of the trims that returned.
C18_NoPositionTrimmedTwice == trimmed.again = {}

\* C19: when a trim returns, every message of the flattened history whose
\* value is absent from the chain passed to it has been returned by that
\* trim or by an earlier one.
C19_NoStaleMessageLost ==
    (call.op = "trim" /\ call.status = "ok") =>
        \A p \in 0..(Len(Messages(message_cycles)) - 1) :
            ~InChain(Messages(message_cycles)[p + 1], call.chain) => p \in trimmed.once

====
